---- MODULE Spec2Model ----
(***************************************************************************)
(* bevy_fabrik: the IkChain component, its insert hook, the FABRIK solver  *)
(* (IkChain::solve, backward_pass, forward_pass) and the ik_solve system.  *)
(*                                                                         *)
(* Numbers.  f32 lengths are fixed point, 100 units = 1.0, so a squared    *)
(* distance of 0.001 is 10 squared units.  f32 angles are in steps of 15   *)
(* degrees, so PI = 12; sin and cos come from a table scaled by 1000 and   *)
(* atan2 returns the table direction nearest to its argument.  A Vec3 is   *)
(* a record [nan, x, y, z]; nan = TRUE stands for a vector with a NaN      *)
(* component (what glam's normalize() yields for the zero vector), and     *)
(* every operation on it yields NaN again, as f32 arithmetic does.  A      *)
(* rotation is a rotation about Z, [nan, angle] with angle in 0..23: the   *)
(* scenes start with identity rotations and forward_pass only ever builds  *)
(* Quat::from_rotation_z.  The 3x3 part of a GlobalTransform is the record *)
(* [nan, angle, scale] (rotation about Z times a uniform scale, 100 = 1.0). *)
(***************************************************************************)
EXTENDS Integers, Sequences, FiniteSets, TLC

(* ---------------------------------------------------------------------- *)
(* Bounds of the model                                                     *)
(* ---------------------------------------------------------------------- *)
\* entities of the scene: a single parent line 1 -> 2 -> ... -> NumEntities
NumEntities == 4
\* largest max_iterations the host writes into the chain (besides the default)
MaxIterations == 1

Entities == 1..NumEntities

(* ---------------------------------------------------------------------- *)
(* f32 / glam arithmetic                                                   *)
(* ---------------------------------------------------------------------- *)
PI == 12

Abs(a) == IF a < 0 THEN -a ELSE a

\* a / b rounded to the nearest integer, b > 0
RoundDiv(a, b) == (2 * a + b) \div (2 * b)

RECURSIVE SqrtSearch(_, _, _)
SqrtSearch(n, lo, hi) ==
    IF lo >= hi THEN lo
    ELSE LET mid == (lo + hi + 1) \div 2
         IN  IF mid * mid <= n THEN SqrtSearch(n, mid, hi)
                               ELSE SqrtSearch(n, lo, mid - 1)

\* floor(sqrt(n)), n < 2^30
ISqrt(n) == SqrtSearch(n, 0, 32767)

Vec3(x, y, z) == [nan |-> FALSE, x |-> x, y |-> y, z |-> z]
NaNVec == [nan |-> TRUE, x |-> 0, y |-> 0, z |-> 0]
Vec3_ZERO == Vec3(0, 0, 0)

VAdd(a, b) == IF a.nan \/ b.nan THEN NaNVec ELSE Vec3(a.x + b.x, a.y + b.y, a.z + b.z)
VSub(a, b) == IF a.nan \/ b.nan THEN NaNVec ELSE Vec3(a.x - b.x, a.y - b.y, a.z - b.z)

length_squared(v) == v.x * v.x + v.y * v.y + v.z * v.z

\* Vec3::length, in units; the vector is finite
length(v) == RoundDiv(ISqrt(100 * length_squared(v)), 10)

\* a.distance_squared(b) < threshold; a comparison with NaN is false
distance_squared_lt(a, b, threshold) ==
    /\ ~a.nan
    /\ ~b.nan
    /\ length_squared(VSub(a, b)) < threshold

\* v.normalize() * len: glam divides by the length without a zero check, so
\* the zero vector gives NaN
normalize_times(v, len) ==
    IF v.nan \/ length_squared(v) = 0 THEN NaNVec
    ELSE LET l10 == ISqrt(100 * length_squared(v))
         IN  Vec3(RoundDiv(10 * v.x * len, l10),
                  RoundDiv(10 * v.y * len, l10),
                  RoundDiv(10 * v.z * len, l10))

\* a unit vector is stored scaled by 1000; dir * len
dir_times(dir, len) ==
    Vec3(RoundDiv(dir.x * len, 1000), RoundDiv(dir.y * len, 1000),
         RoundDiv(dir.z * len, 1000))

Dir3_Y == Vec3(0, 1000, 0)

\* Dir3::new(v.normalize_or(Vec3::Y)), falling back to Vec3::Y
normalize_or_Y(v) ==
    IF v.nan \/ length_squared(v) = 0 THEN Dir3_Y ELSE normalize_times(v, 1000)

SinTable == <<0, 259, 500, 707, 866, 966, 1000>>

\* 1000 * sin(k * 15 degrees)
Sin(k) ==
    LET m == k % 24
    IN  IF m <= 6 THEN SinTable[m + 1]
        ELSE IF m <= 12 THEN SinTable[12 - m + 1]
        ELSE IF m <= 18 THEN -SinTable[m - 12 + 1]
        ELSE -SinTable[24 - m + 1]

Cos(k) == Sin(k + 6)

\* f32::atan2(dy, dx) in (-PI, PI]: the table direction nearest to (dx, dy);
\* atan2(0, 0) = 0
atan2(dy, dx) ==
    IF dx = 0 /\ dy = 0 THEN 0
    ELSE CHOOSE k \in (1 - PI)..PI :
            \A j \in (1 - PI)..PI :
                dx * Cos(k) + dy * Sin(k) >= dx * Cos(j) + dy * Sin(j)

\* an f32 angle: [nan, a]
Ang(a) == [nan |-> FALSE, a |-> a]
NaNAng == [nan |-> TRUE, a |-> 0]

angle_between_points(p1, p2) ==
    IF p1.nan \/ p2.nan THEN NaNAng ELSE Ang(atan2(p2.y - p1.y, p2.x - p1.x))

\* wrapf on integers: floor(|n / max|) is |n| \div max
wrapf(n, min_limit, max_limit) ==
    IF n >= min_limit /\ n <= max_limit THEN n
    ELSE IF max_limit = 0 /\ min_limit = 0 THEN 0
    ELSE LET max2 == max_limit - min_limit
             offset == min_limit
             n2 == n - offset
             num_of_max == Abs(n2) \div max2
             n3 == IF n2 >= max2 THEN n2 - num_of_max * max2
                   ELSE IF n2 < 0 THEN n2 + (num_of_max + 1) * max2
                   ELSE n2
         IN  n3 + offset

\* f32::clamp
clamp(n, min, max) == IF n < min THEN min ELSE IF n > max THEN max ELSE n

\* rotate_vector(Vec2::new(len, 0.0), angle), as a Vec3 with z = 0
rotate_vector(len, angle) ==
    Vec3(RoundDiv(Cos(angle) * len, 1000), RoundDiv(Sin(angle) * len, 1000), 0)

\* a rotation about Z
Rot(angle) == [nan |-> FALSE, angle |-> angle % 24]
NaNRot == [nan |-> TRUE, angle |-> 0]
Quat_IDENTITY == Rot(0)

\* the 3x3 part of an affine transform: rotation about Z times uniform scale
Mat3(angle, scale) == [nan |-> FALSE, angle |-> angle % 24, scale |-> scale]
NaNMat3 == [nan |-> TRUE, angle |-> 0, scale |-> 100]

\* v rotated about Z by angle
rotate_z(v, angle) ==
    Vec3(RoundDiv(Cos(angle) * v.x - Sin(angle) * v.y, 1000),
         RoundDiv(Sin(angle) * v.x + Cos(angle) * v.y, 1000),
         v.z)

(* ---------------------------------------------------------------------- *)
(* Program constants and inputs                                            *)
(* ---------------------------------------------------------------------- *)
DEFAULT_TARGET_SQ_THRESHOLD == 10
DEFAULT_MAX_ITTERATIONS == 10

\* Option<&Parent> = None
NoEntity == 0
\* Option<&SwingConstraint> / Option<&TwistConstraint> = None
NoConstraint == -1

\* local translations the scene is spawned with (examples/basic.rs spawns
\* every joint with Transform::from_translation): the three lowest entities
\* choose theirs, the entities above them are spawned with SegAbove
SegSet == {Vec3(0, 100, 0), Vec3(200, 0, 0)}
SegAbove == Vec3(0, 100, 0)
\* what else the scene is spawned with: the scale of the end entity's
\* Transform (100 = 1.0) and the swing and twist constraint of the joint
\* above the end entity
Outfits ==
    {[scale |-> 100, swing |-> NoConstraint, twist |-> NoConstraint],
     [scale |-> 200, swing |-> NoConstraint, twist |-> NoConstraint],
     [scale |-> 100, swing |-> 1, twist |-> NoConstraint],
     [scale |-> 100, swing |-> NoConstraint, twist |-> 3],
     [scale |-> 100, swing |-> 1, twist |-> 3]}
\* values the host assigns to IkChain::target
Targets == {Vec3(0, 300, 0), Vec3(0, 302, 0), Vec3(100, 200, 0),
            Vec3(1000, 0, 0)}
\* joint counts handed to IkChain::new
JointCounts == 0..(NumEntities + 1)

VARIABLES
    parent,        \* Parent component: entity -> entity or NoEntity
    hasTransform,  \* entity -> has a Transform component
    hasGlobal,     \* entity -> has a GlobalTransform component
    local,         \* Transform: entity -> [translation, rotation, scale]
    global,        \* GlobalTransform: entity -> [translation, matrix3]
    swing,         \* SwingConstraint angle or NoConstraint
    twist,         \* TwistConstraint angle or NoConstraint
    chain,         \* the IkChain component of entity 1
    pc,            \* position of the program
    joints,        \* solve's joint_transforms: seq of [translation, matrix3, constraints]
    iter,          \* iterations of solve's loop started so far
    result,        \* how the current call of solve ended ("none" outside a call)
    warned,        \* ik_solve logged a warning for the last call
    pre,           \* the Transforms when the current call of solve began
    passes,        \* backward and forward passes run by the current call
    written        \* entities whose Transform the current call has written

vars == <<parent, hasTransform, hasGlobal, local, global, swing, twist, chain,
          pc, joints, iter, result, warned, pre, passes, written>>

scene == <<parent, hasTransform, hasGlobal, global, swing, twist>>
solver == <<joints, iter, result, warned, pre, passes, written>>

\* the entity that carries the IkChain
ChainEntity == 1

\* IkChain::new
IkChain_new(joint_count) ==
    [enabled |-> TRUE,
     target |-> Vec3_ZERO,
     threshold |-> DEFAULT_TARGET_SQ_THRESHOLD,
     max_iterations |-> DEFAULT_MAX_ITTERATIONS,
     joint_count |-> joint_count,
     joint_lengths |-> <<>>,
     root_normal |-> Dir3_Y]

\* world position of entity e in a freshly spawned, propagated scene: every
\* Transform is a pure translation, the top entity sits at the origin
RECURSIVE SpawnPos(_, _)
SpawnPos(seg, e) ==
    IF e = NumEntities THEN Vec3_ZERO ELSE VAdd(SpawnPos(seg, e + 1), seg[e])

Init ==
    \E low \in [1..3 -> SegSet], fit \in Outfits, jc \in JointCounts :
      LET seg == [e \in 1..(NumEntities - 1) |-> IF e <= 3 THEN low[e] ELSE SegAbove]
          ts == fit.scale
          sw == fit.swing
          tw == fit.twist
      IN
        /\ parent = [e \in Entities |-> IF e = NumEntities THEN NoEntity ELSE e + 1]
        /\ hasTransform = [e \in Entities |-> TRUE]
        /\ hasGlobal = [e \in Entities |-> TRUE]
        /\ local = [e \in Entities |->
                       [translation |-> IF e = NumEntities THEN Vec3_ZERO ELSE seg[e],
                        rotation |-> Quat_IDENTITY,
                        scale |-> IF e = ChainEntity THEN ts ELSE 100]]
        /\ global = [e \in Entities |->
                       [translation |-> SpawnPos(seg, e),
                        matrix3 |-> Mat3(0, IF e = ChainEntity THEN ts ELSE 100)]]
        /\ swing = [e \in Entities |-> IF e = 2 THEN sw ELSE NoConstraint]
        /\ twist = [e \in Entities |-> IF e = 2 THEN tw ELSE NoConstraint]
        /\ chain = IkChain_new(jc)
        /\ pc = "constructed"
        /\ joints = <<>>
        /\ iter = 0
        /\ result = "none"
        /\ warned = FALSE
        /\ pre = local
        /\ passes = 0
        /\ written = {}

(* ---------------------------------------------------------------------- *)
(* ik_chain_insert_hook                                                    *)
(* ---------------------------------------------------------------------- *)
\* the check weakened to reject only an empty chain
HookRejectsOnlyZero(joint_count) == joint_count < 1

\* the hook's first check
HookRejectsCount(joint_count) == joint_count < 2

\* the length put in front instead of pushed at the back
HookPushFront(lengths, len) == <<len>> \o lengths

\* lengths.push(joint_normal.length())
HookPush(lengths, len) == Append(lengths, len)

\* The loop `for _ in 1..joint_count` from its k-th step on; the value is
\* [ok, lengths, joint_normal]; ok = FALSE is one of the three panics.
RECURSIVE HookWalk(_, _, _, _)
HookWalk(k, tail, lengths, joint_normal) ==
    IF k >= chain.joint_count
    THEN [ok |-> TRUE, lengths |-> lengths, joint_normal |-> joint_normal]
    ELSE LET joint == parent[tail]
         IN  IF joint = NoEntity \/ ~hasGlobal[joint] \/ ~hasGlobal[tail]
             THEN [ok |-> FALSE, lengths |-> lengths, joint_normal |-> joint_normal]
             ELSE LET n == VSub(global[tail].translation, global[joint].translation)
                  IN  HookWalk(k + 1, joint, HookPush(lengths, length(n)), n)

ik_chain_insert_hook ==
    /\ pc = "constructed"
    /\ IF HookRejectsCount(chain.joint_count)
       THEN /\ pc' = "panicked"
            /\ UNCHANGED chain
       ELSE LET w == HookWalk(1, ChainEntity, <<>>, Vec3_ZERO)
            IN  IF w.ok
                THEN /\ chain' = [chain EXCEPT
                                    !.joint_lengths = w.lengths,
                                    !.root_normal = normalize_or_Y(w.joint_normal)]
                     /\ pc' = "idle"
                ELSE /\ pc' = "panicked"
                     /\ UNCHANGED chain
    /\ UNCHANGED <<scene, local, solver>>

(* ---------------------------------------------------------------------- *)
(* IkChain::solve: the early returns and the gathering of the joints       *)
(* ---------------------------------------------------------------------- *)
\* the enabled flag ignored
SolveDisabledIgnored(c) == FALSE

\* `if !self.enabled { return Ok(()) }`
SolveDisabled(c) == ~c.enabled

\* the early return on the threshold left out
SolveAtTargetNever(c, pos) == FALSE

\* `dist < self.threshold`, on the end entity's GlobalTransform
SolveAtTarget(c, pos) == distance_squared_lt(pos, c.target, c.threshold)

\* the loop's test left out: the loop always runs its whole budget
IterAtTargetNever(c, pos) == FALSE

\* the loop's test: target.distance_squared(joints[0]) < self.threshold
IterAtTarget(c, pos) == distance_squared_lt(c.target, pos, c.threshold)

\* transform_query / the joined lens find the entity: it has a Transform and
\* a GlobalTransform (Parent and the constraints are optional)
QueryGet(e) == hasTransform[e] /\ hasGlobal[e]

\* [swing, twist].into_iter().flatten().collect()
Constraints(e) ==
    (IF swing[e] = NoConstraint THEN <<>> ELSE <<swing[e]>>)
    \o (IF twist[e] = NoConstraint THEN <<>> ELSE <<twist[e]>>)

\* what `parent.unwrap()` does on None while gathering
GatherNoParent == "panic"

\* The loop `for i in 0..self.joint_count` from step i on (i counts from 0);
\* the value is [status, joints], status "ok", "err" (the ? operator) or
\* "panic" (parent.unwrap() on None).
RECURSIVE Gather(_, _, _)
Gather(i, current, acc) ==
    IF i >= chain.joint_count THEN [status |-> "ok", joints |-> acc]
    ELSE IF ~QueryGet(current) THEN [status |-> "err", joints |-> acc]
    ELSE LET acc2 == Append(acc, [translation |-> global[current].translation,
                                  matrix3 |-> global[current].matrix3,
                                  constraints |-> Constraints(current)])
         IN  IF i < chain.joint_count - 1
             THEN IF parent[current] = NoEntity
                  THEN [status |-> GatherNoParent, joints |-> acc2]
                  ELSE Gather(i + 1, parent[current], acc2)
             ELSE [status |-> "ok", joints |-> acc2]

(* ---------------------------------------------------------------------- *)
(* backward_pass                                                           *)
(* ---------------------------------------------------------------------- *)
\* "Set root transform back to origin": J[Len(J)] is joints.last()
RestoreRoot(J, origin) == [J EXCEPT ![Len(J)].translation = origin]

\* the loop `for i in 1..joints.len()`; k = i + 1 indexes the sequence J
RECURSIVE BackwardLoop(_, _, _)
BackwardLoop(J, k, c) ==
    IF k > Len(J) THEN J
    ELSE LET prev == J[k - 1]
             step == normalize_times(VSub(J[k].translation, prev.translation),
                                     c.joint_lengths[k - 1])
         IN  BackwardLoop([J EXCEPT ![k].matrix3 = prev.matrix3,
                                    ![k].translation = VAdd(prev.translation, step)],
                          k + 1, c)

backward_pass(J, c) ==
    LET origin == J[Len(J)].translation
        J0 == [J EXCEPT ![1].translation = c.target]
    IN  RestoreRoot(BackwardLoop(J0, 2, c), origin)

(* ---------------------------------------------------------------------- *)
(* forward_pass                                                            *)
(* ---------------------------------------------------------------------- *)
\* the limit left by `for test in joints[i+1].1.iter() { min = ..; max = .. }`:
\* every constraint overwrites min and max
ConstraintLimit(constraints) ==
    IF constraints = <<>> THEN PI ELSE constraints[Len(constraints)]

\* the rest length forward_pass gives the segment between joints[i] and
\* joints[i+1]: `self.joint_lengths[i+1]`; k = i + 1, and joint_lengths[j]
\* of the code is c.joint_lengths[j + 1] here
ForwardSegLen(c, k) == c.joint_lengths[k + 1]

\* joints[i+1].0.compute_transform().with_rotation(from_rotation_z(a + PI/2))
with_rotation_z(m, ang) ==
    IF m.nan \/ ang.nan THEN NaNMat3 ELSE Mat3(ang.a + PI \div 2, m.scale)

\* the loop `for i in (0..root_end_index).rev()`; k = i + 1
RECURSIVE ForwardLoop(_, _, _, _)
ForwardLoop(J, k, root_angle, c) ==
    IF k < 1 THEN J
    ELSE LET a == J[k + 1].translation
             b == J[k].translation
             between == angle_between_points(a, b)
             limit == ConstraintLimit(J[k + 1].constraints)
             angle == IF between.nan \/ root_angle.nan THEN NaNAng
                      ELSE Ang(root_angle.a
                               + clamp(wrapf(between.a - root_angle.a, -PI, PI),
                                       -limit, limit))
             moved == IF angle.nan \/ a.nan THEN NaNVec
                      ELSE VAdd(Vec3(a.x, a.y, 0),
                                rotate_vector(ForwardSegLen(c, k), angle.a))
         IN  ForwardLoop([J EXCEPT ![k + 1].matrix3 = with_rotation_z(@, angle),
                                   ![k].translation = moved],
                         k - 1, angle, c)

forward_pass(J, c) ==
    LET r == Len(J) - 1
        J0 == [J EXCEPT ![r].translation =
                  VAdd(J[Len(J)].translation,
                       dir_times(c.root_normal, c.joint_lengths[r]))]
    IN  ForwardLoop(J0, r - 1, Ang(0), c)

(* ---------------------------------------------------------------------- *)
(* write-back                                                              *)
(* ---------------------------------------------------------------------- *)
\* child.reparented_to(parent): parent.affine().inverse() * child.affine(),
\* split into translation, rotation and scale
reparented_to(child, par) ==
    IF child.matrix3.nan \/ par.matrix3.nan \/ child.translation.nan
       \/ par.translation.nan
    THEN [translation |-> NaNVec, rotation |-> NaNRot, scale |-> 100]
    ELSE LET d == rotate_z(VSub(child.translation, par.translation),
                           -par.matrix3.angle)
         IN  [translation |-> Vec3(RoundDiv(100 * d.x, par.matrix3.scale),
                                   RoundDiv(100 * d.y, par.matrix3.scale),
                                   RoundDiv(100 * d.z, par.matrix3.scale)),
              rotation |-> Rot(child.matrix3.angle - par.matrix3.angle),
              scale |-> RoundDiv(100 * child.matrix3.scale, par.matrix3.scale)]

\* the scale written too
ApplyTransformWithScale(t, updated) ==
    [t EXCEPT !.translation = updated.translation, !.rotation = updated.rotation,
              !.scale = updated.scale]

\* transform.translation = ..; transform.rotation = ..
ApplyTransform(t, updated) ==
    [t EXCEPT !.translation = updated.translation, !.rotation = updated.rotation]

\* the bound of `for i in 0..self.joint_count - 1`
ApplyCount(c) == c.joint_count - 1

\* The write-back loop from step i on (i counts from 0); the value is
\* [status, local, written].
RECURSIVE ApplyLoop(_, _, _, _)
ApplyLoop(i, current, loc, wr) ==
    IF i >= ApplyCount(chain) THEN [status |-> "ok", local |-> loc, written |-> wr]
    ELSE IF ~QueryGet(current) THEN [status |-> "err", local |-> loc, written |-> wr]
    ELSE LET loc2 == [loc EXCEPT ![current] =
                         ApplyTransform(@, reparented_to(joints[i + 1], joints[i + 2]))]
             wr2 == wr \cup {current}
         IN  IF parent[current] = NoEntity
             THEN [status |-> "panic", local |-> loc2, written |-> wr2]
             ELSE ApplyLoop(i + 1, parent[current], loc2, wr2)

(* ---------------------------------------------------------------------- *)
(* The host between two runs of ik_solve                                   *)
(* ---------------------------------------------------------------------- *)
\* no component of the scene has been removed so far
SceneIntact ==
    /\ \A e \in Entities : hasTransform[e] /\ hasGlobal[e]
    /\ \A e \in Entities : e # NumEntities => parent[e] # NoEntity

\* chain.target = ..
SetTarget ==
    /\ pc = "idle"
    /\ \E t \in Targets : t # chain.target /\ chain' = [chain EXCEPT !.target = t]
    /\ UNCHANGED <<scene, local, pc, solver>>

\* chain.enabled = ..
SetEnabled ==
    /\ pc = "idle"
    /\ chain' = [chain EXCEPT !.enabled = ~@]
    /\ UNCHANGED <<scene, local, pc, solver>>

\* chain.max_iterations = ..
SetMaxIterations ==
    /\ pc = "idle"
    /\ \E m \in 0..MaxIterations :
          m # chain.max_iterations /\ chain' = [chain EXCEPT !.max_iterations = m]
    /\ UNCHANGED <<scene, local, pc, solver>>

\* the entities the IkChain declares as its joints
DeclaredJoints == {e \in Entities : e <= chain.joint_count}

\* a joint below the declared root leaves its parent
RemoveParent ==
    /\ pc \in {"constructed", "idle"}
    /\ SceneIntact
    /\ \E e \in DeclaredJoints :
          /\ e < chain.joint_count
          /\ parent[e] # NoEntity
          /\ parent' = [parent EXCEPT ![e] = NoEntity]
    /\ UNCHANGED <<hasTransform, hasGlobal, local, global, swing, twist, chain, pc,
                   solver>>

\* a declared joint loses its GlobalTransform
RemoveGlobalTransform ==
    /\ pc \in {"constructed", "idle"}
    /\ SceneIntact
    /\ \E e \in DeclaredJoints : hasGlobal' = [hasGlobal EXCEPT ![e] = FALSE]
    /\ UNCHANGED <<parent, hasTransform, local, global, swing, twist, chain, pc,
                   solver>>

\* a declared joint loses its Transform
RemoveTransform ==
    /\ pc \in {"constructed", "idle"}
    /\ SceneIntact
    /\ \E e \in DeclaredJoints : hasTransform' = [hasTransform EXCEPT ![e] = FALSE]
    /\ UNCHANGED <<parent, hasGlobal, local, global, swing, twist, chain, pc,
                   solver>>

(* ---------------------------------------------------------------------- *)
(* ik_solve and the steps of IkChain::solve                                *)
(* ---------------------------------------------------------------------- *)
\* ik_solve calls chain.solve: the early returns and the gathering
ik_solve ==
    /\ pc = "idle"
    /\ pre' = local
    /\ passes' = 0
    /\ written' = {}
    /\ iter' = 0
    /\ warned' = FALSE
    /\ IF SolveDisabled(chain)
       THEN /\ result' = "ok"
            /\ pc' = "returned"
            /\ joints' = <<>>
       ELSE IF ~QueryGet(ChainEntity)
       THEN /\ result' = "err"
            /\ pc' = "returned"
            /\ joints' = <<>>
       ELSE IF SolveAtTarget(chain, global[ChainEntity].translation)
       THEN /\ result' = "ok"
            /\ pc' = "returned"
            /\ joints' = <<>>
       ELSE LET g == Gather(0, ChainEntity, <<>>)
            IN  /\ joints' = g.joints
                /\ result' = IF g.status = "ok" THEN "running" ELSE g.status
                /\ pc' = CASE g.status = "ok" -> "iterate"
                           [] g.status = "err" -> "returned"
                           [] OTHER -> "panicked"
    /\ UNCHANGED <<scene, local, chain>>

\* the head of `for _ in 0..self.max_iterations` and the threshold test
solve_iterate ==
    /\ pc = "iterate"
    /\ IF iter < chain.max_iterations
          /\ ~IterAtTarget(chain, joints[1].translation)
       THEN /\ pc' = "backward"
            /\ iter' = iter + 1
       ELSE /\ pc' = "apply"
            /\ UNCHANGED iter
    /\ UNCHANGED <<scene, local, chain, joints, result, warned, pre, passes, written>>

solve_backward_pass ==
    /\ pc = "backward"
    /\ joints' = backward_pass(joints, chain)
    /\ passes' = passes + 1
    /\ pc' = "forward"
    /\ UNCHANGED <<scene, local, chain, iter, result, warned, pre, written>>

\* `joints.len() - 2` underflows on a single joint
solve_forward_pass ==
    /\ pc = "forward"
    /\ IF Len(joints) < 2
       THEN /\ pc' = "panicked"
            /\ result' = "panic"
            /\ UNCHANGED <<joints, passes>>
       ELSE /\ joints' = forward_pass(joints, chain)
            /\ passes' = passes + 1
            /\ pc' = "iterate"
            /\ UNCHANGED result
    /\ UNCHANGED <<scene, local, chain, iter, warned, pre, written>>

\* "Apply the transforms"
solve_apply ==
    /\ pc = "apply"
    /\ LET w == ApplyLoop(0, ChainEntity, local, {})
       IN  /\ local' = w.local
           /\ written' = w.written
           /\ result' = w.status
           /\ pc' = IF w.status = "panic" THEN "panicked" ELSE "returned"
    /\ UNCHANGED <<scene, chain, joints, iter, warned, pre, passes>>

\* back in ik_solve: `if let Err(e) = .. { warn!(..) }`, then the next frame
ik_solve_return ==
    /\ pc = "returned"
    /\ warned' = (result = "err")
    /\ result' = "none"
    /\ pc' = "idle"
    /\ joints' = <<>>
    /\ iter' = 0
    /\ pre' = local
    /\ passes' = 0
    /\ written' = {}
    /\ UNCHANGED <<scene, local, chain>>

Next ==
    \/ ik_chain_insert_hook
    \/ SetTarget
    \/ SetEnabled
    \/ SetMaxIterations
    \/ RemoveParent
    \/ RemoveGlobalTransform
    \/ RemoveTransform
    \/ ik_solve
    \/ solve_iterate
    \/ solve_backward_pass
    \/ solve_forward_pass
    \/ solve_apply
    \/ ik_solve_return

Spec == Init /\ [][Next]_vars

(* ---------------------------------------------------------------------- *)
(* Vocabulary of the properties                                            *)
(* ---------------------------------------------------------------------- *)
\* the k-th ancestor of e along the Parent links, NoEntity when there is none
RECURSIVE Ancestor(_, _)
Ancestor(e, k) ==
    IF k = 0 \/ e = NoEntity THEN e ELSE Ancestor(parent[e], k - 1)

\* the call of solve ran to the end of its write-back
SolveCompleted == pc = "returned" /\ result = "ok" /\ joints # <<>>

\* a call of solve has ended, by returning or by a panic inside it
SolveEnded == pc = "returned" \/ (pc = "panicked" /\ result = "panic")

\* distance between the solved positions of joints i and i + 1 of the array
JointDist(i) == length(VSub(joints[i].translation, joints[i + 1].translation))

JointFinite(i) == ~joints[i].translation.nan

\* no joint position of the array is NaN
AllFinite == \A i \in 1..Len(joints) : JointFinite(i)

RECURSIVE SumTo(_, _)
SumTo(seq, n) == IF n = 0 THEN 0 ELSE seq[n] + SumTo(seq, n - 1)

\* the chain's reach
Reach == SumTo(chain.joint_lengths, Len(chain.joint_lengths))

\* the bend at joint k of the array, 1 < k < Len(joints): the angle from the
\* segment that enters k (from k + 1) to the segment that leaves it (to k - 1)
Bend(k) ==
    LET into == VSub(joints[k].translation, joints[k + 1].translation)
        out == VSub(joints[k - 1].translation, joints[k].translation)
    IN  wrapf(atan2(out.y, out.x) - atan2(into.y, into.x), -PI, PI)

(* ---------------------------------------------------------------------- *)
(* C1: after a completed solve every segment i of the joint array has the  *)
(* rest length joint_lengths[i] recorded for it at initialization (within  *)
(* 0.02); stated for the solves whose positions are all finite.            *)
(* ---------------------------------------------------------------------- *)
C1_SegmentLengthsKept ==
    (SolveCompleted /\ AllFinite) =>
        \A i \in 1..(Len(joints) - 1) :
            Abs(JointDist(i) - chain.joint_lengths[i]) <= 2

(* ---------------------------------------------------------------------- *)
(* C2: a 2-joint chain with max_iterations >= 1 whose target lies at the   *)
(* segment length from the root ends a completed solve with the tail at    *)
(* the target (within 0.1), the root where it was and the segment length   *)
(* kept (stated for finite positions).                                     *)
(* ---------------------------------------------------------------------- *)
C2_TwoJointReachesTarget ==
    (/\ SolveCompleted
     /\ chain.joint_count = 2
     /\ chain.max_iterations >= 1
     /\ AllFinite
     /\ length(VSub(chain.target, global[parent[ChainEntity]].translation))
            = chain.joint_lengths[1])
    => /\ length_squared(VSub(joints[1].translation, chain.target)) <= 100
       /\ joints[2].translation = global[parent[ChainEntity]].translation
       /\ Abs(JointDist(1) - chain.joint_lengths[1]) <= 2

(* ---------------------------------------------------------------------- *)
(* C3: when the target is farther from the root than the reach, a solve    *)
(* with the default iteration budget ends with the end-effector at the     *)
(* reach from the root (within 0.02), on the ray from the root to the      *)
(* target (within 0.1); stated for finite positions.                      *)
(* ---------------------------------------------------------------------- *)
C3_UnreachableStraightens ==
    LET root == joints[Len(joints)].translation
        toTarget == VSub(chain.target, root)
    IN  (/\ SolveCompleted
         /\ chain.max_iterations = DEFAULT_MAX_ITTERATIONS
         /\ AllFinite
         /\ length_squared(toTarget) > Reach * Reach)
        => /\ Abs(length(VSub(joints[1].translation, root)) - Reach) <= 2
           /\ length_squared(VSub(joints[1].translation,
                                  VAdd(root, normalize_times(toTarget, Reach))))
                  <= 100

(* ---------------------------------------------------------------------- *)
(* C4: after a forward pass the bend at a joint is within every            *)
(* constraint the joint carries, the swing and the twist limit both;       *)
(* stated for finite positions and for the joints below the one next to    *)
(* the root, whose two segments the loop of forward_pass both places.      *)
(* ---------------------------------------------------------------------- *)
C4_EveryConstraintLimits ==
    (pc = "iterate" /\ passes > 0 /\ AllFinite) =>
        \A k \in 2..(Len(joints) - 2) :
            \A j \in 1..Len(joints[k].constraints) :
                Abs(Bend(k)) <= joints[k].constraints[j]

(* ---------------------------------------------------------------------- *)
(* C5: while the chain is disabled a call of solve returns Ok, runs no     *)
(* pass, gathers nothing and leaves every Transform as it was, whatever    *)
(* the target and whatever is missing from the scene.                      *)
(* ---------------------------------------------------------------------- *)
C5_DisabledNoEffect ==
    ~chain.enabled =>
        /\ pc \in {"idle", "returned"}
        /\ pc = "returned" =>
              /\ result = "ok"
              /\ iter = 0
              /\ passes = 0
              /\ joints = <<>>
              /\ written = {}
              /\ local = pre

\* the end entity's world position is within the threshold of the target
TailAtTarget ==
    length_squared(VSub(global[ChainEntity].translation, chain.target))
        < chain.threshold

\* a disabled call has returned in a scene with a missing component, the
\* target away from the end entity
C5_Witness ==
    /\ pc = "returned"
    /\ ~chain.enabled
    /\ ~SceneIntact
    /\ ~TailAtTarget

(* ---------------------------------------------------------------------- *)
(* C6: when the end-effector is within the threshold of the target as      *)
(* solve begins, the call returns (Ok, when the end entity has its         *)
(* Transform) with zero iterations, no pass, no write-back and every       *)
(* Transform unchanged.                                                    *)
(* ---------------------------------------------------------------------- *)
C6_NoWorkAtTarget ==
    (chain.enabled /\ hasGlobal[ChainEntity] /\ TailAtTarget) =>
        /\ pc \notin {"iterate", "backward", "forward", "apply"}
        /\ result # "panic"
        /\ pc = "returned" =>
              /\ hasTransform[ChainEntity] => result = "ok"
              /\ iter = 0
              /\ passes = 0
              /\ written = {}
              /\ local = pre

\* a call has returned with the target exactly at the end entity
C6_Witness ==
    /\ pc = "returned"
    /\ chain.enabled
    /\ QueryGet(ChainEntity)
    /\ chain.target = global[ChainEntity].translation

(* ---------------------------------------------------------------------- *)
(* C7: a call of solve writes only translation and rotation, only of the   *)
(* end-effector and its first joint_count - 2 ancestors (all joint_count   *)
(* - 1 of them when it completes), never the root, an entity outside the   *)
(* chain or a scale; and the root's position in the joint array stays the  *)
(* gathered one after every backward and every forward pass.               *)
(* ---------------------------------------------------------------------- *)
\* the end-effector and its first joint_count - 2 ancestors
ChainWritten == {Ancestor(ChainEntity, i) : i \in 0..(chain.joint_count - 2)}

C7_WriteBackFrame ==
    /\ \A e \in Entities : local[e].scale = pre[e].scale
    /\ \A e \in Entities \ written : local[e] = pre[e]
    /\ written \subseteq ChainWritten
    /\ SolveCompleted =>
          /\ written = ChainWritten
          /\ Cardinality(written) = chain.joint_count - 1
    /\ joints # <<>> /\ Len(joints) = chain.joint_count =>
          joints[Len(joints)].translation
              = global[Ancestor(ChainEntity, chain.joint_count - 1)].translation

\* a completed solve that ran passes and changed a Transform, in a chain
\* whose end entity is scaled and which leaves an entity outside
C7_Witness ==
    /\ SolveCompleted
    /\ passes > 0
    /\ local # pre
    /\ local[ChainEntity].scale = 200
    /\ chain.joint_count < NumEntities

(* ---------------------------------------------------------------------- *)
(* C8: when the gathering meets a joint without a parent link or without   *)
(* its transforms, solve returns the error to ik_solve (which then logs    *)
(* its warning) and no Transform has been written.                         *)
(* ---------------------------------------------------------------------- *)
\* solve gets as far as the gathering
GatherReached == chain.enabled /\ QueryGet(ChainEntity) /\ ~TailAtTarget

\* a joint of the walk lacks its transforms, or one below the root lacks its
\* parent
GatherBroken ==
    \E i \in 0..(chain.joint_count - 1) :
        LET e == Ancestor(ChainEntity, i)
        IN  /\ e # NoEntity
            /\ \/ ~QueryGet(e)
               \/ i < chain.joint_count - 1 /\ parent[e] = NoEntity

C8_GatherFailureIsError ==
    (SolveEnded /\ GatherReached /\ GatherBroken) =>
        /\ pc = "returned"
        /\ result = "err"
        /\ written = {}
        /\ local = pre

HookBroken ==
    \E k \in 1..(chain.joint_count - 1) :
        LET t == Ancestor(ChainEntity, k - 1)
            j == Ancestor(ChainEntity, k)
        IN  /\ t # NoEntity
            /\ (j = NoEntity \/ ~hasGlobal[j] \/ ~hasGlobal[t])

C10_HookStep ==
    (pc = "constructed" /\ pc' # "constructed" /\ chain.joint_count >= 2) =>
        IF HookBroken
        THEN pc' = "panicked" /\ chain' = chain
        ELSE /\ pc' = "idle"
             /\ Len(chain'.joint_lengths) = chain.joint_count - 1
             /\ \A k \in 1..(chain.joint_count - 1) :
                   chain'.joint_lengths[k] =
                       length(VSub(global[Ancestor(ChainEntity, k - 1)].translation,
                                   global[Ancestor(ChainEntity, k)].translation))

C10_HookWalk == [][C10_HookStep]_vars

\* the hook has panicked on a chain declared one joint longer than the line
\* of entities, in a scene with nothing removed
C10_Witness ==
    /\ pc = "panicked"
    /\ result = "none"
    /\ chain.joint_count = NumEntities + 1
    /\ SceneIntact

(* ---------------------------------------------------------------------- *)
(* C11: the loop of solve runs at most max_iterations iterations, each    *)
(* one backward pass followed by one forward pass; the threshold test on  *)
(* the current end-effector position is made before each iteration, and   *)
(* once it succeeds no further pass is run; with max_iterations = 0 no    *)
(* pass is ever run. Every step of the loop lowers LoopVariant, so the    *)
(* loop ends.                                                              *)
(* ---------------------------------------------------------------------- *)
\* the current end-effector position is within the threshold of the target
EndEffectorWithin ==
    /\ Len(joints) >= 1
    /\ ~joints[1].translation.nan
    /\ ~chain.target.nan
    /\ length_squared(VSub(chain.target, joints[1].translation)) < chain.threshold

InLoop == pc \in {"iterate", "backward", "forward"}

\* a bound on the steps the loop still takes
LoopVariant ==
    CASE pc = "iterate"  -> 3 * (chain.max_iterations - iter) + 1
      [] pc = "backward" -> 3 * (chain.max_iterations - iter) + 3
      [] pc = "forward"  -> 3 * (chain.max_iterations - iter) + 2
      [] OTHER           -> 0

\* the passes run so far, by the position in the loop
LoopCount ==
    /\ iter <= chain.max_iterations
    /\ pc = "iterate"  => passes = 2 * iter
    /\ pc = "backward" => iter >= 1 /\ passes = 2 * iter - 2
    /\ pc = "forward"  => iter >= 1 /\ passes = 2 * iter - 1
    /\ pc = "apply"    => /\ passes = 2 * iter
                          /\ iter = chain.max_iterations \/ EndEffectorWithin
    /\ chain.max_iterations = 0 => passes = 0

C11_LoopStep ==
    /\ InLoop => LoopCount
    /\ (InLoop \/ pc = "idle") => LoopCount'
    /\ InLoop =>
          /\ chain' = chain
          /\ LoopVariant >= 0
          /\ LoopVariant' < LoopVariant
    /\ pc = "iterate" =>
          IF iter < chain.max_iterations /\ ~EndEffectorWithin
          THEN pc' = "backward" /\ iter' = iter + 1 /\ passes' = passes
          ELSE pc' = "apply" /\ iter' = iter /\ passes' = passes /\ joints' = joints
    /\ pc = "backward" => pc' = "forward" /\ iter' = iter /\ passes' = passes + 1
    /\ pc = "forward" => pc' = "iterate" /\ iter' = iter /\ passes' = passes + 1
    /\ pc = "apply" => iter' = iter /\ passes' = passes

C11_BoundedLoop == [][C11_LoopStep]_vars

\* the loop has stopped on the threshold test after some, but not all, of
\* its iterations, every position finite
C11_Witness ==
    /\ pc = "apply"
    /\ 0 < iter
    /\ iter < chain.max_iterations
    /\ passes = 2 * iter
    /\ AllFinite

====
